---- MODULE Spec2Model ----
(***************************************************************************)
(* The su client of native/jni/su/su.c: su_client_main's option parsing,   *)
(* its handshake with the daemon, the terminal relay it starts once        *)
(* admitted, and the signal-driven teardown (sighandler /                  *)
(* setup_sighandlers).                                                     *)
(*                                                                         *)
(* The main thread is followed statement by statement (pc names the next   *)
(* statement).  Signals are asynchronous: one may be delivered between any *)
(* two statements, and its handler runs on a thread of the process while   *)
(* the other threads go on.                                                *)
(***************************************************************************)
EXTENDS Integers, Sequences, FiniteSets, TLC

\* ------------------------------------------------------------------ bounds
\* Terminating signals delivered to the client in one run.
MaxSignals == 2

\* Arguments after argv[0] on the command lines of SpecArgs.
MaxArgs == 3

\* --------------------------------------------------------------- constants
STDIN_FILENO == 0
STDOUT_FILENO == 1
STDERR_FILENO == 2
\* send_fd's "no descriptor" sentinel.
NoFd == -1

\* The atty bit mask is a set of its bits: atty |= B is atty \cup {B}, and
\* atty & B is B \in atty.
ATTY_IN == "ATTY_IN"
ATTY_OUT == "ATTY_OUT"
ATTY_ERR == "ATTY_ERR"

SUPERUSER == "SUPERUSER"
DENY == "DENY"
UID_ROOT == 0

\* A C string is the sequence of its characters, without the terminating 0.
\* The printable characters in the order of their codes, from 32 (space);
\* "grave" stands for the character of code 96.
Printable ==
  <<
    " ", "!", "\"", "#", "$", "%", "&", "'", "(", ")", "*", "+", ",", "-", ".", "/",
    "0", "1", "2", "3", "4", "5", "6", "7", "8", "9", ":", ";", "<", "=", ">", "?",
    "@", "A", "B", "C", "D", "E", "F", "G", "H", "I", "J", "K", "L", "M", "N", "O",
    "P", "Q", "R", "S", "T", "U", "V", "W", "X", "Y", "Z", "[", "\\", "]", "^", "_",
    "grave", "a", "b", "c", "d", "e", "f", "g", "h", "i", "j", "k", "l", "m", "n", "o",
    "p", "q", "r", "s", "t", "u", "v", "w", "x", "y", "z", "{", "|", "}", "~"
  >>

\* The byte that holds character c, and the character a byte holds.
Ord(c) == 31 + CHOOSE i \in 1..Len(Printable) : Printable[i] = c
Chr(n) == Printable[n - 31]

\* The four bytes of a 32-bit integer as the little-endian targets store
\* it, an unsigned being denoted by the int of the same bits; and the
\* integer four such bytes hold.
Bytes32(n) ==
  <<n % 256, (n \div 256) % 256, (n \div 65536) % 256,
    (n \div 16777216) % 256>>

Int32(b) ==
  b[1] + 256 * b[2] + 65536 * b[3]
    + 16777216 * (IF b[4] >= 128 THEN b[4] - 256 ELSE b[4])

\* "/system/bin/sh"
DEFAULT_SHELL == <<"/", "s", "y", "s", "t", "e", "m", "/", "b", "i", "n", "/", "s", "h">>

\* quit_signals, without its terminating 0.
quit_signals ==
  <<"SIGALRM", "SIGABRT", "SIGHUP", "SIGPIPE", "SIGQUIT", "SIGTERM", "SIGINT">>

QuitSet == {quit_signals[i] : i \in 1..Len(quit_signals)}

\* The signals the environment delivers: the first and the last of
\* quit_signals, so that a delivery meets both ends of the two loops that
\* walk quit_signals.
DeliveredSignals == {"SIGALRM", "SIGINT"}

Streams == {STDIN_FILENO, STDOUT_FILENO, STDERR_FILENO}

\* The daemon's admission decisions and the remote shell's exit statuses.
AckValues == {0, 1, 2}
StatusValues == {0, 3}

\* struct su_request as initialised at its declaration.
DefaultRequest ==
  [uid |-> UID_ROOT, login |-> 0, keepenv |-> 0, mount_master |-> 0,
   shell |-> DEFAULT_SHELL, command |-> <<>>]

\* argv[0].
ProgName == <<"s", "u">>

\* The command lines of Spec: no argument, and
\* su -l -p -mm -s /bin/bash 2000 -c id, which changes every field.
SpecArgv ==
  {<<ProgName>>,
   <<ProgName, <<"-", "l">>, <<"-", "p">>, <<"-", "m", "m">>, <<"-", "s">>,
     <<"/", "b", "i", "n", "/", "b", "a", "s", "h">>,
     <<"2", "0", "0", "0">>, <<"-", "c">>, <<"i", "d">>>>}

\* The words the command lines of SpecArgs are made of:
\* -c -cid --command --command=id id -l
\* -mm - 2000 -s shell -h
ArgWords ==
  {<<"-", "c">>,
   <<"-", "c", "i", "d">>,
   <<"-", "-", "c", "o", "m", "m", "a", "n", "d">>,
   <<"-", "-", "c", "o", "m", "m", "a", "n", "d", "=", "i", "d">>,
   <<"i", "d">>,
   <<"-", "l">>,
   <<"-", "m", "m">>,
   <<"-">>,
   <<"2", "0", "0", "0">>,
   <<"-", "s">>,
   <<"s", "h", "e", "l", "l">>,
   <<"-", "h">>}

\* Every command line of at most n words after argv[0].
ArgLists(n) ==
  {<<ProgName>> \o l : l \in UNION {[1..k -> ArgWords] : k \in 0..n}}

\* The user database getpwnam reads: root and shell.
Passwd == (<<"r", "o", "o", "t">> :> 0) @@ (<<"s", "h", "e", "l", "l">> :> 2000)

\* The option string and the long options of su_client_main.
optstring ==
  <<"c", ":", "h", "l", "m", "p", "s", ":", "V", "v", "u", "z", ":", "M">>

required_argument == 1
no_argument == 0

long_opts ==
  <<[name |-> <<"c", "o", "m", "m", "a", "n", "d">>,
     has_arg |-> required_argument, val |-> "c"],
    [name |-> <<"h", "e", "l", "p">>, has_arg |-> no_argument, val |-> "h"],
    [name |-> <<"l", "o", "g", "i", "n">>, has_arg |-> no_argument, val |-> "l"],
    [name |-> <<"p", "r", "e", "s", "e", "r", "v", "e", "-", "e", "n", "v"
              , "i", "r", "o", "n", "m", "e", "n", "t">>,
     has_arg |-> no_argument, val |-> "p"],
    [name |-> <<"s", "h", "e", "l", "l">>,
     has_arg |-> required_argument, val |-> "s"],
    [name |-> <<"v", "e", "r", "s", "i", "o", "n">>,
     has_arg |-> no_argument, val |-> "v"],
    [name |-> <<"c", "o", "n", "t", "e", "x", "t">>,
     has_arg |-> required_argument, val |-> "z"],
    [name |-> <<"m", "o", "u", "n", "t", "-", "m", "a", "s", "t", "e", "r">>,
     has_arg |-> no_argument, val |-> "M"]>>

EXIT_SUCCESS == 0

\* "/dev/pts/0"
SlaveName == <<"/", "d", "e", "v", "/", "p", "t", "s", "/", "0">>

VARIABLES
  pc,          \* the main thread's next statement
  argv,        \* char *argv[]; argv[i] of the code is argv[i + 1] here
  optind,      \* getopt's optind
  gs,          \* getopt's private state: nonopt_start, nonopt_end, place
  su_req,      \* struct su_request su_req
  tty,         \* environment: the standard streams that are real terminals
  atty,        \* int atty
  ptmx,        \* int ptmx: "unset" | "open"
  pts_slave,   \* char pts_slave[PATH_MAX]: <<>> while uninitialised, else <<s>>
  fd,          \* the connection: "none" | "open" | "closed"
  wire,        \* what the client has written on the connection, in order
  inbox,       \* integers the daemon has written and the client has not read
  ack,         \* the admission decision read: <<>> or <<n>>
  code,        \* the final status read: <<>> or <<n>>
  ret,         \* su_client_main's return value: kind "none", DENY or "code"
  setupI,      \* setup_sighandlers' loop index
  disp,        \* each quit signal's disposition: "DFL" | "HND"
  frames,      \* running invocations of sighandler, oldest first
  stdio,       \* the client's open standard descriptors
  raw,         \* stdin is in raw mode
  pumpIn,      \* Input pump: "idle" | "running" | "stopped"
  pumpOut,     \* Output pump: "idle" | "blocked" | "eof" | "error"
  winch,       \* Resize watcher: "idle" | "watching"
  remote,      \* the remote shell: "none" | "running" | "exited"
  ptyBuf,      \* the master holds output of the remote shell, not yet read
  nsig,        \* signals delivered so far
  hist         \* history: what the claims need to remember of the past

vars ==
  <<pc, argv, optind, gs, su_req, tty, atty, ptmx, pts_slave, fd, wire, inbox,
    ack, code, ret, setupI, disp, frames, stdio, raw, pumpIn, pumpOut, winch, remote, ptyBuf,
    nsig, hist>>

\* Groups of variables for UNCHANGED.
reqVars == <<argv, optind, gs, su_req, tty>>
ptyVars == <<ptmx, pts_slave>>
sigVars == <<setupI, disp, frames, nsig>>
relayVars == <<pumpIn, pumpOut, winch, raw>>
remoteVars == <<remote, ptyBuf>>

\* getopt before its first call.
GetoptStart == [nonopt_start |-> -1, nonopt_end |-> -1, place |-> 0]

\* The state at the entry of su_client_main for the command line a and the
\* terminals t.
Start(a, t) ==
  /\ pc = "prepass"
  /\ argv = a
  /\ optind = 1
  /\ gs = GetoptStart
  /\ su_req = DefaultRequest
  /\ tty = t
  /\ atty = {}
  /\ ptmx = "unset"
  /\ pts_slave = <<>>
  /\ fd = "none"
  /\ wire = <<>>
  /\ inbox = <<>>
  /\ ack = <<>>
  /\ code = <<>>
  /\ ret = [kind |-> "none", val |-> 0]
  /\ setupI = 1
  /\ disp = [s \in QuitSet |-> "DFL"]
  /\ frames = <<>>
  /\ stdio = Streams
  /\ raw = FALSE
  /\ pumpIn = "idle"
  /\ pumpOut = "idle"
  /\ winch = "idle"
  /\ remote = "none"
  /\ ptyBuf = FALSE
  /\ nsig = 0
  /\ hist = [sigAtOutBlocked |-> FALSE, handlerRuns |-> 0,
             daemonStatus |-> <<>>, args |-> a,
             idx |-> [i \in 1..Len(a) |-> i], cmd |-> <<>>, late |-> {}]

Init == \E a \in SpecArgv, t \in SUBSET Streams : Start(a, t)

InitArgs == \E a \in ArgLists(MaxArgs) : Start(a, {})

\* ----------------------------------------------------------------- helpers
Final == {"done", "killed", "aborted", "exited"}

Alive == pc \notin Final

\* The frames running on thread t.
OnThread(t) == {k \in 1..Len(frames) : frames[k].thr = t}

\* A thread runs its own code only while no handler runs on it.
MainRuns == Alive /\ OnThread("main") = {}

At(l) == pc = l /\ MainRuns

\* One write on the connection: the value written and the bytes it puts on
\* the stream.
Msg(item, kind, val, data) ==
  [item |-> item, kind |-> kind, val |-> val, data |-> data]

\* The bytes of the string s.
Bytes(s) == [i \in 1..Len(s) |-> Ord(s[i])]

\* write_int: one integer; the request tag, the only one written, is kept
\* whole under its name.
write_int(item, n) == Msg(item, "int", n, <<n>>)

\* Faulty variant: login and keepenv change places in the record.
xwrite_req_Swapped(r) ==
  Msg("scalars", "req", <<r.uid, r.login, r.keepenv, r.mount_master>>,
      Bytes32(r.uid) \o Bytes32(r.keepenv) \o Bytes32(r.login)
        \o Bytes32(r.mount_master))

\* xwrite(fd, &su_req, 4 * sizeof(unsigned)): the first four fields of
\* struct su_request, in the order of their declaration.
xwrite_req(r) ==
  Msg("scalars", "req", <<r.uid, r.login, r.keepenv, r.mount_master>>,
      Bytes32(r.uid) \o Bytes32(r.login) \o Bytes32(r.keepenv)
        \o Bytes32(r.mount_master))

\* write_string: the length as an integer, then that many bytes and no
\* terminator.
write_string(item, s) == Msg(item, "str", s, Bytes32(Len(s)) \o Bytes(s))

\* send_fd: the descriptor travels beside the byte stream.
send_fd(item, n) == Msg(item, "fd", n, <<>>)

\* Faulty variant: stdout's bit set from isatty(STDIN_FILENO).
Probe_StdinTwice ==
  (IF STDIN_FILENO \in tty THEN {ATTY_IN, ATTY_OUT} ELSE {})
    \cup (IF STDERR_FILENO \in tty THEN {ATTY_ERR} ELSE {})

\* isatty() of the three streams, or-ed into atty.
Probe ==
  (IF STDIN_FILENO \in tty THEN {ATTY_IN} ELSE {})
    \cup (IF STDOUT_FILENO \in tty THEN {ATTY_OUT} ELSE {})
    \cup (IF STDERR_FILENO \in tty THEN {ATTY_ERR} ELSE {})

\* Faulty variant: a pseudo-terminal only when stdin is a terminal.
NeedPty_StdinOnly(a) == ATTY_IN \in a

\* if (atty): a pseudo-terminal is needed.
NeedPty(a) == a # {}

\* The descriptor sent for each stream.
FdStdin(a) == IF ATTY_IN \in a THEN NoFd ELSE STDIN_FILENO

\* Faulty variant: stdout's descriptor chosen on stdin's bit.
FdStdout_WrongBit(a) == IF ATTY_IN \in a THEN NoFd ELSE STDOUT_FILENO

FdStdout(a) == IF ATTY_OUT \in a THEN NoFd ELSE STDOUT_FILENO

FdStderr(a) == IF ATTY_ERR \in a THEN NoFd ELSE STDERR_FILENO

\* Faulty variant: the Output pump started on stderr's bit.
AfterIn_WrongBit(a) == IF ATTY_ERR \in a THEN "winch" ELSE "code"

\* Where the main thread goes once admitted, and after the stdin branch.
AfterIn(a) == IF ATTY_OUT \in a THEN "winch" ELSE "code"

\* Faulty variant: the handler is installed whatever stdin is.
AfterAck_Always(a) == "setup"

AfterAck(a) == IF ATTY_IN \in a THEN "setup" ELSE AfterIn(a)

\* ------------------------------------------- su_client_main option parsing
\* What the parsing statements leave alone.
parseRest ==
  <<tty, atty, ptyVars, fd, wire, inbox, ack, code, sigVars, stdio, relayVars,
    remoteVars>>

\* argv[i] and the elements a..b-1 of a vector, counted from 0 as in the code.
Arg(av, i) == av[i + 1]
Sub(s, a, b) == SubSeq(s, a + 1, b)

\* The loop that rewrites -cn to -z and -mm to -M in every element of argv.
Rewrite(a) ==
  IF a = <<"-", "c", "n">> THEN <<"-", "z">>
  ELSE IF a = <<"-", "m", "m">> THEN <<"-", "M">>
  ELSE a

Prepass ==
  /\ At("prepass")
  /\ argv' = [i \in 1..Len(argv) |-> Rewrite(argv[i])]
  /\ pc' = "getopt"
  /\ UNCHANGED <<optind, gs, su_req, ret, hist, parseRest>>

\* getopt_long of the C library, in its default mode: options are taken
\* wherever they stand and the other arguments are moved behind them.
\* permute_args moves the non-options nargv[start..end-1] behind the options
\* nargv[end..opt_end-1].
permute_args(panonopt_start, panonopt_end, opt_end, nargv) ==
  Sub(nargv, 0, panonopt_start) \o Sub(nargv, panonopt_end, opt_end)
    \o Sub(nargv, panonopt_start, panonopt_end)
    \o Sub(nargv, opt_end, Len(nargv))

\* What one call returns: the option character c ("-1" at the end, "?" on an
\* error), argv as it leaves it, ix the place each element had in argv
\* before, the new optind and private state, optarg (<<>> is NULL), and at,
\* the element the option stood in.
GetoptResult(c, av, ix, oi, g, oa, at) ==
  [c |-> c, argv |-> av, ix |-> ix, optind |-> oi, gs |-> g, optarg |-> oa,
   at |-> at]

\* strchr(options, c): the place of c in the option string, 0 if absent.
OptIndex(c) ==
  IF \E i \in 1..Len(optstring) : optstring[i] = c
    THEN CHOOSE i \in 1..Len(optstring) :
           optstring[i] = c /\ \A j \in 1..(i - 1) : optstring[j] # c
    ELSE 0

\* A short option: the character at place k of argv[oi].
getopt_short(av, ix, oi, g, k) ==
  LET p == Arg(av, oi)
      optchar == p[k]
      more == k < Len(p)
      oli == OptIndex(optchar)
      next == IF more THEN oi ELSE oi + 1
      g1 == [g EXCEPT !.place = IF more THEN k + 1 ELSE 0]
      g0 == [g EXCEPT !.place = 0]
  IN
    IF optchar = ":" \/ (optchar = "-" /\ more) \/ oli = 0
      THEN IF optchar = "-" /\ ~more
             THEN GetoptResult("-1", av, ix, oi, g0, <<>>, oi)
             ELSE GetoptResult("?", av, ix, next, g1, <<>>, oi)
    ELSE IF ~(oli < Len(optstring) /\ optstring[oli + 1] = ":")
      THEN GetoptResult(optchar, av, ix, next, g1, <<>>, oi)
    ELSE IF more
      THEN GetoptResult(optchar, av, ix, oi + 1, g0,
                        <<SubSeq(p, k + 1, Len(p))>>, oi)
    ELSE IF oi + 1 >= Len(av)
      THEN GetoptResult("?", av, ix, oi + 1, g0, <<>>, oi)
    ELSE GetoptResult(optchar, av, ix, oi + 2, g0, <<Arg(av, oi + 1)>>, oi)

\* strncmp(current_argv, name, current_argv_len) == 0
NameMatches(current_argv, name) ==
  /\ Len(current_argv) <= Len(name)
  /\ SubSeq(name, 1, Len(current_argv)) = current_argv

\* A long option: body is what follows the two dashes of argv[oi].
parse_long_options(av, ix, oi, g, body) ==
  LET eqs == {i \in 1..Len(body) : body[i] = "="}
      has_equal == eqs # {}
      eq == IF has_equal THEN CHOOSE i \in eqs : \A j \in eqs : i <= j
                         ELSE Len(body) + 1
      current_argv == SubSeq(body, 1, eq - 1)
      value == SubSeq(body, eq + 1, Len(body))
      cand == {i \in 1..Len(long_opts) :
                 NameMatches(current_argv, long_opts[i].name)}
      exact == {i \in cand : Len(long_opts[i].name) = Len(current_argv)}
      found == exact # {} \/ Cardinality(cand) = 1
      match == IF exact # {} THEN CHOOSE i \in exact : TRUE
                             ELSE CHOOSE i \in cand : TRUE
      o == long_opts[match]
      bad == GetoptResult("?", av, ix, oi + 1, g, <<>>, oi)
  IN
    IF ~found THEN bad
    ELSE IF o.has_arg = no_argument
      THEN IF has_equal THEN bad
           ELSE GetoptResult(o.val, av, ix, oi + 1, g, <<>>, oi)
    ELSE IF has_equal
      THEN GetoptResult(o.val, av, ix, oi + 1, g, <<value>>, oi)
    ELSE IF oi + 1 < Len(av)
      THEN GetoptResult(o.val, av, ix, oi + 2, g, <<Arg(av, oi + 1)>>, oi)
    ELSE bad

\* The end of the scan: the non-options skipped so far go behind the
\* options, and optind is left on the first of them.
getopt_end(av, ix, oi, g) ==
  LET n == g.nonopt_end - g.nonopt_start IN
    IF g.nonopt_end # -1
      THEN GetoptResult("-1",
             permute_args(g.nonopt_start, g.nonopt_end, oi, av),
             permute_args(g.nonopt_start, g.nonopt_end, oi, ix),
             oi - n, GetoptStart, <<>>, oi)
    ELSE IF g.nonopt_start # -1
      THEN GetoptResult("-1", av, ix, g.nonopt_start, GetoptStart, <<>>, oi)
    ELSE GetoptResult("-1", av, ix, oi, GetoptStart, <<>>, oi)

RECURSIVE getopt_internal(_, _, _, _)
getopt_internal(av, ix, oi, g) ==
  IF g.place # 0 THEN getopt_short(av, ix, oi, g, g.place)
  ELSE IF oi >= Len(av) THEN getopt_end(av, ix, oi, g)
  ELSE
    LET p == Arg(av, oi) IN
      IF p = <<>> \/ p[1] # "-" \/ Len(p) = 1
        THEN \* not an option: skipped, to be moved behind the options
          IF g.nonopt_start = -1
            THEN getopt_internal(av, ix, oi + 1,
                                 [g EXCEPT !.nonopt_start = oi])
          ELSE IF g.nonopt_end # -1
            THEN getopt_internal(
                   permute_args(g.nonopt_start, g.nonopt_end, oi, av),
                   permute_args(g.nonopt_start, g.nonopt_end, oi, ix),
                   oi + 1,
                   [g EXCEPT !.nonopt_start =
                               oi - (g.nonopt_end - g.nonopt_start),
                             !.nonopt_end = -1])
          ELSE getopt_internal(av, ix, oi + 1, g)
      ELSE
        LET g1 == IF g.nonopt_start # -1 /\ g.nonopt_end = -1
                    THEN [g EXCEPT !.nonopt_end = oi] ELSE g
        IN
          IF p = <<"-", "-">> THEN getopt_end(av, ix, oi + 1, g1)
          ELSE IF p[2] = "-"
            THEN parse_long_options(av, ix, oi, g1, SubSeq(p, 3, Len(p)))
          ELSE getopt_short(av, ix, oi, g1, 2)

getopt_long(av, ix, oi, g) == getopt_internal(av, ix, oi, g)

\* sprintf(command, "%s %s", command, argv[i]) writes the buffer it reads:
\* undefined.  A C library that formats in place leaves the two joined by a
\* space; one that empties the destination first leaves the space and
\* argv[i] only.
sprintf_overlap(command, a) == {command \o <<" ">> \o a, <<" ">> \o a}

\* concat_commands' loop from element i on: the strings it can end with.
RECURSIVE concat_from(_, _, _)
concat_from(av, i, command) ==
  IF i >= Len(av) THEN {command}
  ELSE UNION {concat_from(av, i + 1, c) :
                c \in IF command # <<>> THEN sprintf_overlap(command, Arg(av, i))
                                        ELSE {Arg(av, i)}}

\* concat_commands(argc, argv) with optind = oi.
concat_commands(av, oi) == concat_from(av, oi - 1, <<>>)

\* atoi: blanks, a sign, then digits up to the first other character.
RECURSIVE Digits(_, _)
Digits(s, acc) ==
  IF s = <<>> \/ Ord(s[1]) \notin 48..57 THEN acc
  ELSE Digits(Tail(s), 10 * acc + Ord(s[1]) - 48)

RECURSIVE atoi(_)
atoi(s) ==
  IF s = <<>> THEN 0
  ELSE IF s[1] = " " THEN atoi(Tail(s))
  ELSE IF s[1] = "-" THEN 0 - Digits(Tail(s), 0)
  ELSE IF s[1] = "+" THEN Digits(Tail(s), 0)
  ELSE Digits(s, 0)

\* getpwnam(name): <<>> is NULL, else the entry's pw_uid.
getpwnam(name) == IF name \in DOMAIN Passwd THEN <<Passwd[name]>> ELSE <<>>

\* usage(status), and the exits of -V and -v: the process ends.
Exit(status) ==
  /\ pc' = "exited"
  /\ ret' = [kind |-> "exit", val |-> status]

\* The element of the command line that stands at argv[i] now.
Origin(ix, i) == ix[i + 1]

\* One turn of while ((c = getopt_long(...)) != -1) { switch (c) ... }.
GetoptStep ==
  /\ At("getopt")
  /\ LET r == getopt_long(argv, hist.idx, optind, gs)
         h == [hist EXCEPT
                 !.idx = r.ix,
                 !.late = IF hist.cmd # <<>> /\ r.c # "-1"
                            THEN @ \cup {Origin(r.ix, r.at)} ELSE @]
     IN
       /\ argv' = r.argv
       /\ gs' = r.gs
       /\ CASE r.c = "-1" ->
                 /\ pc' = "dash" /\ optind' = r.optind
                 /\ su_req' = su_req /\ ret' = ret /\ hist' = h
            [] r.c = "c" ->
                 /\ \E command \in concat_commands(r.argv, r.optind) :
                      su_req' = [su_req EXCEPT !.command = command]
                 /\ optind' = Len(argv)
                 /\ pc' = pc /\ ret' = ret
                 /\ hist' = [h EXCEPT !.cmd =
                               <<[arg |-> r.optarg[1],
                                  rest |-> Sub(hist.args, r.optind, Len(argv)),
                                  at |-> Origin(r.ix, r.at)]>>]
            [] r.c \in {"h", "V", "v"} ->
                 /\ Exit(EXIT_SUCCESS)
                 /\ optind' = r.optind /\ su_req' = su_req /\ hist' = h
            [] r.c \in {"l", "m", "p", "s", "z", "M"} ->
                 /\ su_req' =
                      CASE r.c = "l" -> [su_req EXCEPT !.login = 1]
                        [] r.c \in {"m", "p"} -> [su_req EXCEPT !.keepenv = 1]
                        [] r.c = "s" -> [su_req EXCEPT !.shell = r.optarg[1]]
                        [] r.c = "z" -> su_req
                        [] r.c = "M" -> [su_req EXCEPT !.mount_master = 1]
                 /\ optind' = r.optind
                 /\ pc' = pc /\ ret' = ret /\ hist' = h
            [] OTHER ->
                 /\ Exit(2)
                 /\ optind' = r.optind /\ su_req' = su_req /\ hist' = h
  /\ UNCHANGED parseRest

\* if (optind < argc && strcmp(argv[optind], "-") == 0)
LoginDash ==
  /\ At("dash")
  /\ IF optind < Len(argv) /\ Arg(argv, optind) = <<"-">>
       THEN /\ su_req' = [su_req EXCEPT !.login = 1]
            /\ optind' = optind + 1
            /\ hist' = [hist EXCEPT !.late =
                          IF hist.cmd # <<>>
                            THEN @ \cup {Origin(hist.idx, optind)} ELSE @]
       ELSE UNCHANGED <<su_req, optind, hist>>
  /\ pc' = "user"
  /\ UNCHANGED <<argv, gs, ret, parseRest>>

\* The user name or uid: getpwnam, else atoi.
UserArg ==
  /\ At("user")
  /\ IF optind < Len(argv)
       THEN LET pw == getpwnam(Arg(argv, optind)) IN
              /\ su_req' = [su_req EXCEPT !.uid =
                              IF pw # <<>> THEN pw[1]
                                           ELSE atoi(Arg(argv, optind))]
              /\ optind' = optind + 1
              /\ hist' = [hist EXCEPT !.late =
                            IF hist.cmd # <<>>
                              THEN @ \cup {Origin(hist.idx, optind)} ELSE @]
       ELSE UNCHANGED <<su_req, optind, hist>>
  /\ pc' = "connect"
  /\ UNCHANGED <<argv, gs, ret, parseRest>>

\* ------------------------------------------------- su_client_main handshake
\* fd = connect_daemon(); a daemon that cannot be reached is fatal.
Connect ==
  /\ At("connect")
  /\ \E ok \in BOOLEAN :
       IF ok THEN fd' = "open" /\ pc' = "tag"
             ELSE fd' = fd /\ pc' = "aborted"
  /\ UNCHANGED <<reqVars, atty, ptyVars, wire, inbox, ack, code, ret, sigVars,
                 stdio, relayVars, remoteVars, hist>>

\* One write on the connection, then on to the next statement.
Send(from, m, to) ==
  /\ At(from)
  /\ wire' = Append(wire, Msg(m.item, m.kind, m.val, m.data))
  /\ pc' = to
  /\ UNCHANGED <<reqVars, atty, ptyVars, fd, inbox, ack, code, ret, sigVars,
                 stdio, relayVars, remoteVars, hist>>

WriteTag == Send("tag", write_int("tag", SUPERUSER), "req")

WriteReq == Send("req", xwrite_req(su_req), "shell")

WriteShell == Send("shell", write_string("shell", su_req.shell), "command")

WriteCommand == Send("command", write_string("command", su_req.command), "isatty")

\* The three isatty() calls.
ProbeStreams ==
  /\ At("isatty")
  /\ atty' = Probe
  /\ pc' = "pts"
  /\ UNCHANGED <<reqVars, ptyVars, fd, wire, inbox, ack, code, ret, sigVars,
                 stdio, relayVars, remoteVars, hist>>

\* pts_open(): the master descriptor and the slave's name, or no free
\* pseudo-terminal, which is fatal to the request.
pts_open(ok) ==
  IF ok THEN [ptmx |-> "open", slave |-> <<SlaveName>>, fatal |-> FALSE]
        ELSE [ptmx |-> "unset", slave |-> <<>>, fatal |-> TRUE]

\* if (atty) ptmx = pts_open(...); else pts_slave[0] = 0;
OpenPts ==
  /\ At("pts")
  /\ IF NeedPty(atty)
       THEN \E ok \in BOOLEAN :
              LET r == pts_open(ok) IN
                /\ ptmx' = r.ptmx
                /\ pts_slave' = r.slave
                /\ pc' = IF r.fatal THEN "aborted" ELSE "slave"
       ELSE /\ pts_slave' = <<<<>>>>
            /\ ptmx' = ptmx
            /\ pc' = "slave"
  /\ UNCHANGED <<reqVars, atty, fd, wire, inbox, ack, code, ret, sigVars,
                 stdio, relayVars, remoteVars, hist>>

WriteSlave == Send("slave", write_string("pts_slave", pts_slave[1]), "fd_in")

SendStdin == Send("fd_in", send_fd("stdin", FdStdin(atty)), "fd_out")

\* Faulty variant: stdin's descriptor message sent a second time.
SendStdout_Resend == Send("fd_out", send_fd("stdin", FdStdin(atty)), "fd_err")

SendStdout == Send("fd_out", send_fd("stdout", FdStdout(atty)), "fd_err")

SendStderr == Send("fd_err", send_fd("stderr", FdStderr(atty)), "ack")

\* Faulty variant: only a negative decision is a denial.
Denied_Negative(n) == n < 0

\* if (read_int(fd)): a nonzero decision is a denial.
Denied(n) == n # 0

\* read_int(fd), the admission decision, and the branch on it.
ReadAck ==
  /\ At("ack")
  /\ inbox # <<>>
  /\ ack' = <<Head(inbox)>>
  /\ inbox' = Tail(inbox)
  /\ pc' = IF Denied(Head(inbox)) THEN "deny" ELSE AfterAck(atty)
  /\ UNCHANGED <<reqVars, atty, ptyVars, fd, wire, code, ret, sigVars, stdio,
                 relayVars, remoteVars, hist>>

\* Faulty variant: the decision itself is returned on a denial.
DenyResult_Ack == [kind |-> "code", val |-> ack[1]]

\* The value su_client_main returns on a denial.
DenyResult == [val |-> 0, kind |-> DENY]

\* fprintf(stderr, "%s\n", strerror(EACCES)); return DENY;
Deny ==
  /\ At("deny")
  /\ ret' = DenyResult
  /\ pc' = "done"
  /\ UNCHANGED <<reqVars, atty, ptyVars, fd, wire, inbox, ack, code, sigVars,
                 stdio, relayVars, remoteVars, hist>>

\* ------------------------------------------------------------ the teardown
\* Every quit signal has the teardown handler installed.
Armed == \A s \in QuitSet : disp[s] = "HND"

\* sighandler has been entered at least once.
Tripped == hist.handlerRuns > 0

\* One sigaction(quit_signals[i], &act, NULL) of setup_sighandlers' loop.
Install(d, i) == [d EXCEPT ![quit_signals[i]] = "HND"]

\* Faulty variant: the loop leaves out the first quit signal.
Reset_SkipFirst(d, i) ==
  IF i = 1 THEN d ELSE [d EXCEPT ![quit_signals[i]] = "DFL"]

\* One sigaction(quit_signals[i], &act, NULL) of sighandler's loop.
Reset(d, i) == [d EXCEPT ![quit_signals[i]] = "DFL"]

\* setup_sighandlers(sighandler), one signal at a time.
SetupSighandlers ==
  /\ At("setup")
  /\ disp' = Install(disp, setupI)
  /\ IF setupI = Len(quit_signals)
       THEN pc' = "pump_in" /\ setupI' = setupI
       ELSE pc' = pc /\ setupI' = setupI + 1
  /\ UNCHANGED <<reqVars, atty, ptyVars, fd, wire, inbox, ack, code, ret,
                 frames, nsig, stdio, relayVars, remoteVars, hist>>

\* pump_stdin_async(ptmx): stdin, if still open, goes raw and the Input
\* pump runs on a thread of its own.
PumpStdinAsync ==
  /\ At("pump_in")
  /\ pumpIn' = "running"
  /\ raw' = (STDIN_FILENO \in stdio)
  /\ pc' = AfterIn(atty)
  /\ UNCHANGED <<reqVars, atty, ptyVars, fd, wire, inbox, ack, code, ret,
                 sigVars, stdio, pumpOut, winch, remoteVars, hist>>

\* watch_sigwinch_async(STDOUT_FILENO, ptmx)
WatchSigwinchAsync ==
  /\ At("winch")
  /\ winch' = "watching"
  /\ pc' = "pump_out"
  /\ UNCHANGED <<reqVars, atty, ptyVars, fd, wire, inbox, ack, code, ret,
                 sigVars, stdio, pumpIn, pumpOut, raw, remoteVars, hist>>

\* pump_stdout_blocking(ptmx) is entered: the main thread blocks reading
\* the pseudo-terminal master.
PumpStdoutBlocking ==
  /\ At("pump_out")
  /\ pumpOut' = "blocked"
  /\ pc' = "pumping"
  /\ UNCHANGED <<reqVars, atty, ptyVars, fd, wire, inbox, ack, code, ret,
                 sigVars, stdio, pumpIn, winch, raw, remoteVars, hist>>

\* How the Output pump's next step ends: a chunk is copied to stdout, or
\* the write fails because stdout is closed, or the master is at
\* end-of-stream, or the teardown has closed the standard streams under
\* the blocked pump.  "none": the pump stays blocked.
PumpOutcome ==
  IF ptyBuf
    THEN (IF STDOUT_FILENO \in stdio THEN {"copy"} ELSE {"error"})
    ELSE (IF remote = "exited" THEN {"eof"} ELSE {})
           \cup (IF STDOUT_FILENO \notin stdio THEN {"error"} ELSE {})

\* One turn of the Output pump's loop.
PumpOutStep ==
  /\ At("pumping")
  /\ \E o \in PumpOutcome :
       /\ ptyBuf' = FALSE
       /\ pumpOut' = IF o = "copy" THEN pumpOut ELSE o
       /\ pc' = IF o = "copy" THEN pc ELSE "code"
  /\ UNCHANGED <<reqVars, atty, ptyVars, fd, wire, inbox, ack, code, ret,
                 sigVars, stdio, pumpIn, winch, raw, remote,
                 hist>>

\* The Input pump stops: stdin is at end-of-stream, fails, or was closed.
PumpInStop ==
  /\ Alive
  /\ pumpIn = "running"
  /\ OnThread("in") = {}
  /\ pumpIn' = "stopped"
  /\ UNCHANGED <<pc, reqVars, atty, ptyVars, fd, wire, inbox, ack, code, ret,
                 sigVars, stdio, pumpOut, winch, raw, remoteVars,
                 hist>>

\* Faulty variant: the Input pump is joined before the status is read.
ReadCode_Joined ==
  /\ At("code")
  /\ pumpIn # "running"
  /\ inbox # <<>>
  /\ code' = <<Head(inbox)>>
  /\ inbox' = Tail(inbox)
  /\ pc' = "close"
  /\ UNCHANGED <<reqVars, atty, ptyVars, fd, wire, ack, ret, sigVars, stdio,
                 relayVars, remoteVars, hist>>

\* int code = read_int(fd);
ReadCode ==
  /\ At("code")
  /\ inbox # <<>>
  /\ code' = <<Head(inbox)>>
  /\ inbox' = Tail(inbox)
  /\ pc' = "close"
  /\ UNCHANGED <<reqVars, atty, ptyVars, fd, wire, ack, ret, sigVars, stdio,
                 relayVars, remoteVars, hist>>

\* close(fd);
CloseFd ==
  /\ At("close")
  /\ fd' = "closed"
  /\ pc' = "ret"
  /\ UNCHANGED <<reqVars, atty, ptyVars, wire, inbox, ack, code, ret, sigVars,
                 stdio, relayVars, remoteVars, hist>>

\* Faulty variant: a pump that ended on an error decides the exit status.
ExitCode_FromPump ==
  [kind |-> "code", val |-> IF pumpOut = "error" THEN 1 ELSE code[1]]

\* The value su_client_main returns once admitted.
ExitCode == [kind |-> "code", val |-> code[1]]

\* return code;
Return ==
  /\ At("ret")
  /\ ret' = ExitCode
  /\ pc' = "done"
  /\ UNCHANGED <<reqVars, atty, ptyVars, fd, wire, inbox, ack, code, sigVars,
                 stdio, relayVars, remoteVars, hist>>

\* ---------------------------------------------------------------- signals
\* The threads of the process: the main thread, the Input pump's and the
\* Resize watcher's.
Threads ==
  {"main"} \cup (IF pumpIn = "running" THEN {"in"} ELSE {})
           \cup (IF winch = "watching" THEN {"winch"} ELSE {})

\* sa_mask is empty and SA_NODEFER is not set: while the handler runs for
\* signal s on a thread, only s is blocked, and only on that thread.
Blocked(s, t) == \E k \in OnThread(t) : frames[k].sig = s

\* The thread that takes a signal sent to the process.  Linux hands it to
\* the main thread unless that thread has the signal blocked, and then to
\* any thread that has not.
Receives(s, t) ==
  /\ ~Blocked(s, t)
  /\ t # "main" => Blocked(s, "main")

\* What a delivery of s does under disposition d: the default action of
\* every quit signal terminates the process.
Delivery(d, s) == IF d[s] = "HND" THEN "handler" ELSE "kill"

\* A quit signal is delivered to the process.
Signal(s) ==
  /\ Alive
  /\ nsig < MaxSignals
  /\ nsig' = nsig + 1
  /\ IF Delivery(disp, s) = "kill"
       THEN /\ pc' = "killed"
            /\ frames' = frames
            /\ hist' = [hist EXCEPT
                          !.sigAtOutBlocked = @ \/ pumpOut = "blocked"]
       ELSE /\ \E t \in Threads :
                 /\ Receives(s, t)
                 /\ frames' = Append(frames,
                       [sig |-> s, thr |-> t, pos |-> "restore", i |-> 1])
            /\ pc' = pc
            /\ hist' = [hist EXCEPT
                          !.sigAtOutBlocked = @ \/ pumpOut = "blocked",
                          !.handlerRuns = @ + 1]
  /\ UNCHANGED <<reqVars, atty, ptyVars, fd, wire, inbox, ack, code, ret,
                 setupI, disp, stdio, relayVars, remoteVars>>

RemoveAt(q, k) == SubSeq(q, 1, k - 1) \o SubSeq(q, k + 1, Len(q))

\* The innermost handler of its thread is the one that runs.
Innermost(k) == \A j \in OnThread(frames[k].thr) : j <= k

\* The statement after each of sighandler's first four.
HandlerOrder ==
  [restore |-> "close_in", close_in |-> "close_out",
   close_out |-> "close_err", close_err |-> "reset"]

\* The descriptor each close() of sighandler closes.
Closes ==
  [close_in |-> STDIN_FILENO, close_out |-> STDOUT_FILENO,
   close_err |-> STDERR_FILENO]

\* One statement of sighandler: restore_stdin(), the three close() calls,
\* then the loop that puts back the default handlers.
HandlerStep(k) ==
  LET f == frames[k] IN
  /\ Alive
  /\ Innermost(k)
  /\ raw' = IF f.pos = "restore" THEN FALSE ELSE raw
  /\ stdio' = IF f.pos \in DOMAIN Closes THEN stdio \ {Closes[f.pos]}
                                          ELSE stdio
  /\ disp' = IF f.pos = "reset" THEN Reset(disp, f.i) ELSE disp
  /\ frames' =
       IF f.pos # "reset"
         THEN [frames EXCEPT ![k].pos = HandlerOrder[f.pos]]
         ELSE IF f.i = Len(quit_signals)
                THEN RemoveAt(frames, k)
                ELSE [frames EXCEPT ![k].i = f.i + 1]
  /\ UNCHANGED <<pc, reqVars, atty, ptyVars, fd, wire, inbox, ack, code, ret,
                 setupI, nsig, pumpIn, pumpOut, winch, remoteVars,
                 hist>>

\* ----------------------------------------------------------------- daemon
HandshakeLen == 8

\* The daemon has received the whole handshake and writes its decision.
DaemonAck ==
  /\ Alive
  /\ remote = "none"
  /\ Len(wire) = HandshakeLen
  /\ \E a \in AckValues :
       /\ inbox' = Append(inbox, a)
       /\ remote' = IF a = 0 THEN "running" ELSE "denied"
  /\ UNCHANGED <<pc, reqVars, atty, ptyVars, fd, wire, ack, code, ret,
                 sigVars, stdio, relayVars, ptyBuf, hist>>

\* The remote shell writes to the pseudo-terminal slave.
RemoteWrite ==
  /\ Alive
  /\ remote = "running"
  /\ ptmx = "open"
  /\ ~ptyBuf
  /\ ptyBuf' = TRUE
  /\ UNCHANGED <<pc, reqVars, atty, ptyVars, fd, wire, inbox, ack, code, ret,
                 sigVars, stdio, relayVars, remote, hist>>

\* The remote shell exits and the daemon writes its exit status.
RemoteExit ==
  /\ Alive
  /\ remote = "running"
  /\ remote' = "exited"
  /\ \E s \in StatusValues :
       /\ inbox' = Append(inbox, s)
       /\ hist' = [hist EXCEPT !.daemonStatus = <<s>>]
  /\ UNCHANGED <<pc, reqVars, atty, ptyVars, fd, wire, ack, code, ret,
                 sigVars, stdio, relayVars, ptyBuf>>

\* ---------------------------------------------------------- specification
MainNext ==
  \/ Prepass
  \/ GetoptStep
  \/ LoginDash
  \/ UserArg
  \/ Connect
  \/ WriteTag
  \/ WriteReq
  \/ WriteShell
  \/ WriteCommand
  \/ ProbeStreams
  \/ OpenPts
  \/ WriteSlave
  \/ SendStdin
  \/ SendStdout
  \/ SendStderr
  \/ ReadAck
  \/ Deny
  \/ SetupSighandlers
  \/ PumpStdinAsync
  \/ WatchSigwinchAsync
  \/ PumpStdoutBlocking
  \/ PumpOutStep
  \/ ReadCode
  \/ CloseFd
  \/ Return

HandlerNext == \E k \in 1..Len(frames) : HandlerStep(k)

SignalNext == \E s \in DeliveredSignals : Signal(s)

Next ==
  \/ MainNext
  \/ HandlerNext
  \/ SignalNext
  \/ PumpInStop
  \/ DaemonAck
  \/ RemoteWrite
  \/ RemoteExit

Spec == Init /\ [][Next]_vars

\* The threads of the process are scheduled: the main thread and a running
\* handler each take their next step when they can.
FairSpec == Spec /\ WF_vars(MainNext) /\ WF_vars(HandlerNext)

\* The building of the request and its writing, for every command line of
\* at most MaxArgs words, with no signal.
RequestNext ==
  \/ Prepass
  \/ GetoptStep
  \/ LoginDash
  \/ UserArg
  \/ Connect
  \/ WriteTag
  \/ WriteReq
  \/ WriteShell
  \/ WriteCommand

SpecArgs == InitArgs /\ [][RequestNext]_vars

\* ================================================================== claims
\* The places of the messages written so far.
Sent == 1..Len(wire)

IsPrefix(a, b) == Len(a) <= Len(b) /\ a = SubSeq(b, 1, Len(a))

Items(w) == [i \in 1..Len(w) |-> w[i].item]

\* The items of the handshake, in the order of the protocol.
HandshakeOrder ==
  <<"tag", "scalars", "shell", "command", "pts_slave", "stdin", "stdout",
    "stderr">>

\* The stream each descriptor message is for.
StreamOf ==
  [stdin |-> STDIN_FILENO, stdout |-> STDOUT_FILENO, stderr |-> STDERR_FILENO]

HandshakeSent == Items(wire) = HandshakeOrder

AckRead == ack # <<>>

Admitted == AckRead /\ ack[1] = 0

StatusRead == code # <<>>

RelayIdle == pumpIn = "idle" /\ pumpOut = "idle" /\ winch = "idle"

PumpOutReturned == pumpOut \in {"eof", "error"}

\* C1: what the client has written on the connection is at every moment a
\* prefix of the handshake (tag, scalars, shell, command, slave path, then
\* the stdin, stdout and stderr descriptor messages), so nothing is skipped,
\* repeated or resent, and the client is at or past the read of the
\* admission decision only when the whole handshake has been written.
C1_HandshakeOrder ==
  /\ IsPrefix(Items(wire), HandshakeOrder)
  /\ (pc = "ack" \/ AckRead) => HandshakeSent

\* C1's case: the whole handshake was written and the decision read.
C1_Witness == HandshakeSent /\ AckRead /\ pc = "done"

\* C2: every descriptor message carries the sentinel when its own stream is
\* a real terminal and that stream's own descriptor when it is not,
\* whatever the other two streams are.
C2_SentinelPerStream ==
  \A k \in Sent :
    LET m == wire[k] IN
      m.kind = "fd" =>
        m.val = (IF StreamOf[m.item] \in tty THEN NoFd ELSE StreamOf[m.item])

\* C2's case: the three messages were sent with only stdout a terminal.
C2_Witness == HandshakeSent /\ tty = {STDOUT_FILENO}

\* C3: a pseudo-terminal is only ever allocated when some stream is a
\* terminal, and once the allocation step is behind the client the
\* pseudo-terminal is open exactly when some stream is a terminal, and the
\* slave path, as held and as sent, is non-empty exactly then.
C3_PtyIffAttached ==
  /\ ptmx = "open" => tty # {}
  /\ pts_slave # <<>> =>
       /\ ptmx = "open" <=> tty # {}
       /\ pts_slave[1] # <<>> <=> tty # {}
  /\ \A k \in Sent :
       LET m == wire[k] IN
         m.item = "pts_slave" => (m.val # <<>> <=> tty # {})

\* C3's case: only stderr is a terminal and the slave path was sent.
C3_Witness ==
  /\ tty = {STDERR_FILENO}
  /\ \E k \in Sent : wire[k].item = "pts_slave" /\ wire[k].val = SlaveName

\* C3's other case: no stream is a terminal and the empty path was sent.
C3_WitnessEmpty ==
  /\ tty = {}
  /\ \E k \in Sent : wire[k].item = "pts_slave" /\ wire[k].val = <<>>

\* C4: a relay task has started, or the final status has been read, only
\* if the admission decision has been read and was zero.
C4_AdmissionFirst == (~RelayIdle \/ StatusRead) => Admitted

\* C4's case: admitted, the Output pump running.
C4_Witness == Admitted /\ pumpOut = "blocked"

\* C5 as claimed: whenever a pseudo-terminal was allocated, the final status
\* is read only after the Output pump has reported end-of-stream.
C5_AsClaimed == (StatusRead /\ tty # {}) => pumpOut = "eof"

\* C5: when stdout is a real terminal, the final status is read only after
\* the Output pump has returned, at end-of-stream or on an error.
C5_StatusAfterOutputPump ==
  (StatusRead /\ STDOUT_FILENO \in tty) => PumpOutReturned

\* C5's case: stdout is a terminal and the status was read after the pump
\* ended on an error.
C5_Witness == StatusRead /\ STDOUT_FILENO \in tty /\ pumpOut = "error"

\* C6: once a nonzero admission decision has been read the client is on its
\* way to return DENY (or a signal has killed it), it returns nothing but
\* DENY, no quit signal has the teardown handler, no relay task has
\* started, and the connection is not read again.
C6_Denial ==
  (AckRead /\ Denied(ack[1])) =>
    /\ pc \in {"deny", "done", "killed"}
    /\ pc = "done" => (ret.kind = DENY /\ ret.val = 0)
    /\ \A s \in QuitSet : disp[s] = "DFL"
    /\ hist.handlerRuns = 0
    /\ RelayIdle
    /\ ~StatusRead

\* C6's case: the client has returned after a denial.
C6_Witness == AckRead /\ ack[1] = 2 /\ pc = "done"

\* C7: an admitted client that returns, returns the integer the daemon
\* wrote as the final status, however the Output pump ended; the connection
\* is closed only once that integer has been read; and with no stream a
\* terminal the slave path sent is empty, the three real descriptors were
\* sent and no relay task ever started.
C7_ExitStatus ==
  /\ (pc = "done" /\ Admitted) =>
       /\ hist.daemonStatus # <<>>
       /\ ret = [kind |-> "code", val |-> hist.daemonStatus[1]]
  /\ fd = "closed" => StatusRead
  /\ (pc = "done" /\ Admitted /\ tty = {}) =>
       /\ RelayIdle
       /\ \A k \in Sent :
            LET m == wire[k] IN
              /\ m.item = "pts_slave" => m.val = <<>>
              /\ m.kind = "fd" => m.val = StreamOf[m.item]

\* C7's case: the client returns status 3 after the Output pump was
\* unblocked by an error.
C7_Witness ==
  /\ pc = "done"
  /\ Admitted
  /\ pumpOut = "error"
  /\ ret.kind = "code" /\ ret.val = 3

\* C7's other case: no stream a terminal, the client returns status 3.
C7_WitnessNoTty ==
  pc = "done" /\ Admitted /\ tty = {} /\ ret.kind = "code" /\ ret.val = 3

\* C8: a quit signal delivered while the Output pump is blocked reading the
\* master leads to the pump returning and the main thread going on to the
\* read of the final status (unless a further quit signal is delivered).
C8_SignalUnblocksOutputPump ==
  (hist.sigAtOutBlocked /\ nsig = 1)
    ~> ((PumpOutReturned /\ pc \in {"code", "close", "ret", "done"}) \/ nsig > 1)

\* C9: once sighandler has run and returned, no step installs the teardown
\* handler for any quit signal and no step enters sighandler again.
C9_TrippedIsFinal ==
  [][(Tripped /\ frames = <<>>) =>
       /\ \A s \in QuitSet : disp[s] = "DFL" => disp'[s] = "DFL"
       /\ hist'.handlerRuns = hist.handlerRuns]_vars

\* A relay task is started by this step.
RelayStarts ==
  \/ pumpIn = "idle" /\ pumpIn' # "idle"
  \/ pumpOut = "idle" /\ pumpOut' # "idle"
  \/ winch = "idle" /\ winch' # "idle"

\* C10: whenever a relay task is started, every quit signal has the
\* teardown handler installed.
C10_ArmedBeforeRelay == [][RelayStarts => Armed]_vars

\* The main thread is past the point where the relay tasks are started.
PastRelayStart == Admitted /\ pc \in {"code", "close", "ret", "done"}

\* C11: once the relay has been set up, the Input pump runs exactly when
\* stdin is a terminal, the Output pump exactly when stdout is, a stream
\* replaced by the sentinel has a pump carrying it (the Output pump is the
\* one that reads what the remote shell writes to the pseudo-terminal), and
\* nothing runs when no stream is a terminal.
C11_PumpPerStream ==
  PastRelayStart =>
    /\ STDIN_FILENO \in tty <=> pumpIn # "idle"
    /\ STDOUT_FILENO \in tty <=> pumpOut # "idle"
    /\ STDERR_FILENO \in tty => pumpOut # "idle"
    /\ tty = {} => RelayIdle

\* The pseudo-terminal is allocated by this step.
PtyAllocated == ptmx = "unset" /\ ptmx' = "open"

C14_Teardown ==
  /\ [](\A k \in 1..Len(frames) :
         LET f == frames[k] IN
           /\ f.pos # "restore" => ~raw
           /\ f.pos \in {"close_out", "close_err", "reset"} =>
                STDIN_FILENO \notin stdio
           /\ f.pos \in {"close_err", "reset"} => STDOUT_FILENO \notin stdio
           /\ f.pos = "reset" =>
                /\ STDERR_FILENO \notin stdio
                /\ \A j \in 1..(f.i - 1) : disp[quit_signals[j]] = "DFL"
           /\ (hist.handlerRuns = 1 /\ f.pos # "reset") =>
                disp[f.sig] = "HND")
  /\ [][Len(frames') < Len(frames) =>
         /\ stdio' = {}
         /\ \A s \in QuitSet : disp'[s] = "DFL"]_vars

\* C14's case: the first sighandler has returned and the client goes on.
C14_Witness ==
  hist.handlerRuns = 1 /\ frames = <<>> /\ stdio = {} /\ Alive

\* C16: reading the final status, closing the connection and returning
\* never wait for the Input pump; the Output pump's return takes the main
\* thread to the read of the final status; and with stdout not a terminal
\* starting the Input pump takes it there directly.
C16_InputPumpNotAwaited ==
  /\ []((MainRuns /\ pc = "code" /\ inbox # <<>>) => ENABLED ReadCode)
  /\ []((MainRuns /\ pc = "close") => ENABLED CloseFd)
  /\ []((MainRuns /\ pc = "ret") => ENABLED Return)
  /\ [][(pumpOut = "blocked" /\ pumpOut' # "blocked") => pc' = "code"]_vars
  /\ [][(pumpIn = "idle" /\ pumpIn' = "running"
          /\ STDOUT_FILENO \notin tty) => pc' = "code"]_vars

\* C16's case: the client has returned while the Input pump still runs.
C16_Witness == pc = "done" /\ Admitted /\ pumpIn = "running"

\* C17: a quit signal has the handler, or sighandler has run, only in an
\* admitted run with stdin a terminal; and in such a run, once
\* setup_sighandlers is behind the main thread and until the first signal,
\* all seven have it.
C17_HandlerOnlyWithStdin ==
  /\ ((\E s \in QuitSet : disp[s] = "HND") \/ Tripped \/ frames # <<>>) =>
       (Admitted /\ STDIN_FILENO \in tty)
  /\ (Admitted /\ STDIN_FILENO \in tty /\ pc \notin {"setup", "killed"}
       /\ ~Tripped) => Armed

\* C17's case: only stdout and stderr are terminals, the Output pump runs
\* and every quit signal has its default disposition.
C17_Witness ==
  /\ tty = {STDOUT_FILENO, STDERR_FILENO}
  /\ pumpOut = "blocked"
  /\ \A s \in QuitSet : disp[s] = "DFL"

\* C17's other case: stdin is a terminal and the handler is installed.
C17_WitnessArmed == Armed /\ pumpIn = "running"

\* C18: sighandler is entered at most once in a run.
C18_HandlerRunsOnce == hist.handlerRuns <= 1

\* The statements that build the request.
Parsing == pc \in {"prepass", "getopt", "dash", "user"}

\* The bytes of the request on the connection: the record and two strings.
RequestStream == wire[2].data \o wire[3].data \o wire[4].data

\* The integer at byte k of s, counting from 1.
IntAt(s, k) == Int32(SubSeq(s, k, k + 3))

\* The string of n bytes at byte k of s.
StringAt(s, k, n) == [i \in 1..n |-> Chr(s[k + i - 1])]

\* s holds exactly a record of four integers and two length-prefixed
\* strings.
WellFormed(s) ==
  /\ Len(s) >= 20
  /\ IntAt(s, 17) >= 0
  /\ Len(s) >= 24 + IntAt(s, 17)
  /\ IntAt(s, 21 + IntAt(s, 17)) >= 0
  /\ Len(s) = 24 + IntAt(s, 17) + IntAt(s, 21 + IntAt(s, 17))

\* The decoder: the request a reader of s reconstructs.
DecodeRequest(s) ==
  LET n == IntAt(s, 17)
      m == IntAt(s, 21 + n)
  IN [uid |-> IntAt(s, 1), login |-> IntAt(s, 5), keepenv |-> IntAt(s, 9),
      mount_master |-> IntAt(s, 13), shell |-> StringAt(s, 21, n),
      command |-> StringAt(s, 25 + n, m)]

\* C12: once built the request is not modified, and what the client has
\* written after the tag decodes, as a record of four integers followed by
\* two length-prefixed strings, to the request as built.
C12_RequestRoundTrip ==
  /\ []((Len(wire) >= 4) =>
          /\ WellFormed(RequestStream)
          /\ DecodeRequest(RequestStream) = su_req)
  /\ [][~Parsing => su_req' = su_req]_vars

\* C12's case: a request with a uid, the login flag and a command has been
\* written.
C12_Witness ==
  /\ Len(wire) >= 4
  /\ su_req.uid = 2000 /\ su_req.login = 1 /\ su_req.command # <<>>

\* C12's other case: uid 0, login, the default shell and no command.
C12_WitnessLogin ==
  /\ Len(wire) >= 4
  /\ su_req = [DefaultRequest EXCEPT !.login = 1]

\* The strings of l joined by single spaces.
RECURSIVE Join(_)
Join(l) ==
  IF Len(l) = 1 THEN l[1] ELSE l[1] \o <<" ">> \o Join(Tail(l))

\* C15: once the command option has been taken, the request's command is
\* the option's argument followed by every later argument of the command
\* line, joined by single spaces, and nothing that stands after the option
\* is taken as an option, as the login dash or as the user.
C15_CommandJoined ==
  hist.cmd # <<>> =>
    /\ su_req.command = Join(<<hist.cmd[1].arg>> \o hist.cmd[1].rest)
    /\ \A i \in hist.late : i < hist.cmd[1].at

====
